---------------------------- MODULE Spec2Model ----------------------------
(***************************************************************************)
(* A model of the analysis pipeline and the alert policy of the mental     *)
(* wellness chat backend:                                                  *)
(*   analysis/services.py  compute_overall, risk_from_scores,              *)
(*                         validate_llm_json, analyze_text, the providers  *)
(*   alerts/services.py    _rate_limited, maybe_send_alert                 *)
(*   chat/views.py         ChatSessionViewSet.send, close                  *)
(*   accounts/views.py     ProfileMeAPIView.patch                          *)
(*                                                                         *)
(* Eight specifications share the module:                                  *)
(*   SpecClassify    the classifier applied to every score triple          *)
(*   SpecAnalyze     analyze_text applied to user texts and provider       *)
(*                   replies                                               *)
(*   Spec            one user's requests, one after another: chat turns,   *)
(*                   profile patches, contact removals                     *)
(*   SpecConcurrent  two concurrent chat turns of a consenting user        *)
(*   SpecProfileRace two chat turns of a consenting user and a profile     *)
(*                   patch running beside them                             *)
(*   SpecSessionClose two chat turns of a consenting user and requests     *)
(*                   closing the session running beside them               *)
(*   SpecNormalize   validate_llm_json applied to parsed objects, twice    *)
(*   SpecExtract     _extract_json_from_response applied to short texts    *)
(***************************************************************************)
EXTENDS Integers, Sequences, FiniteSets, TLC

VARIABLES
    \* ---- SpecClassify
    cin,        \* the score triple handed to the classifier
    cout,       \* the classifier's result
    \* ---- SpecAnalyze
    a_text,     \* user_text
    a_obj,      \* the JSON object the members token "M" of a reply denotes
    a_out,      \* what analyze_text did: nothing yet, a payload, or a raise
    \* ---- SpecNormalize
    v_obj,      \* the parsed object handed to validate_llm_json
    v_out,      \* the results of its successive applications, the first on v_obj
    \* ---- SpecExtract
    x_text,     \* the text handed to _extract_json_from_response
    x_out,      \* what the call did: nothing yet, a returned text, or a raise
    \* ---- Spec: the database (committed state)
    now,        \* timezone.now(), in seconds
    profile,    \* the user's Profile row
    contacts,   \* the user's EmergencyContact rows
    rows,       \* committed ChatMessage and AnalysisResult rows
    events,     \* committed AlertEvent rows
    lock,       \* the turn holding SQLite's write lock, or NoTurn
    faults,     \* database failures injected so far
    \* ---- Spec: the outside world
    emails,     \* every message the notification transport accepted
    \* ---- Spec: one request of ChatSessionViewSet.send per turn
    pc,         \* where the turn stands
    attempt,    \* the retry loop's attempt
    llm,        \* what analyze_text did for the turn
    tx,         \* the turn's open transaction: its uncommitted writes
    call,       \* the turn's last call of maybe_send_alert
    waits,      \* the sleeps of the turn's retry loop, in milliseconds
    \* ---- SpecProfileRace: one request of ProfileMeAPIView.patch in two steps
    patch,      \* where it stands, its request data, the Profile instance it loaded
    \* ---- SpecSessionClose: the chat session and the requests closing it
    session,    \* the ChatSession row: status, ended_at
    closing     \* where each request of ChatSessionViewSet.close stands

classify_vars == <<cin, cout>>
analyze_vars == <<a_text, a_obj, a_out>>
pure_vars == <<v_obj, v_out, x_text, x_out>>
db_vars == <<now, profile, contacts, rows, events, lock, faults>>
turn_vars == <<pc, attempt, llm, tx, call, waits>>
chat_vars == <<now, profile, contacts, rows, events, lock, faults, emails,
               pc, attempt, llm, tx, call, waits, patch, session, closing>>
vars == <<cin, cout, a_text, a_obj, a_out, v_obj, v_out, x_text, x_out, now, profile, contacts, rows, events,
          lock, faults, emails, pc, attempt, llm, tx, call, waits, patch,
          session, closing>>

(***************************************************************************)
(* analysis/models.py: RiskLevel, AnalysisStatus                           *)
(***************************************************************************)
LOW == "LOW"
MEDIUM == "MEDIUM"
HIGH == "HIGH"
CRITICAL == "CRITICAL"
RiskLevel == {LOW, MEDIUM, HIGH, CRITICAL}

OK == "OK"
REPAIRED == "REPAIRED"
FAILED == "FAILED"
AnalysisStatus == {OK, REPAIRED, FAILED}

(***************************************************************************)
(* The classifier.  A Decimal with one decimal place is held as an integer *)
(* number of tenths: Decimal("9.0") is 90.                                 *)
(***************************************************************************)
SCORE_LO == 0
SCORE_HI == 10

\* Decimal.quantize under the default context rounds half to even.
\* num/den >= 0 is the exact quotient; the result is the nearest integer.
RoundHalfEven(num, den) ==
    LET q == num \div den
        r == num % den
    IN  IF 2 * r < den THEN q
        ELSE IF 2 * r > den THEN q + 1
        ELSE IF q % 2 = 0 THEN q ELSE q + 1

\* compute_overall: ((stress + anxiety + depression) / 3).quantize(0.1), in tenths
compute_overall(stress, anxiety, depression) ==
    RoundHalfEven(10 * (stress + anxiety + depression), 3)

\* A slip a maintainer could make: every sub-score of 9 escalates to CRITICAL.
risk_from_scores_AnyNine(stress, anxiety, depression, overall) ==
    IF overall >= 90 \/ depression >= 9 \/ stress >= 9 \/ anxiety >= 9 THEN CRITICAL
    ELSE IF overall >= 70 \/ stress >= 8 \/ anxiety >= 8 \/ depression >= 8 THEN HIGH
    ELSE IF overall >= 40 THEN MEDIUM
    ELSE LOW

risk_from_scores(stress, anxiety, depression, overall) ==
    IF overall >= 90 \/ depression >= 9 THEN CRITICAL
    ELSE IF overall >= 70 \/ stress >= 8 \/ anxiety >= 8 \/ depression >= 8 THEN HIGH
    ELSE IF overall >= 40 THEN MEDIUM
    ELSE LOW

Scores == SCORE_LO..SCORE_HI

NoClassification == [done |-> FALSE, overall |-> 0, risk |-> LOW]

\* The other specifications park the classifier's variables here.
ClassifyIdle ==
    /\ cin = [stress |-> 0, anxiety |-> 0, depression |-> 0]
    /\ cout = NoClassification

ClassifyInit ==
    /\ cin \in [stress : Scores, anxiety : Scores, depression : Scores]
    /\ cout = NoClassification

\* One application of the classifier, as analyze_text and the chat view make it.
Classify ==
    /\ ~cout.done
    /\ LET overall == compute_overall(cin.stress, cin.anxiety, cin.depression)
       IN  cout' = [done |-> TRUE,
                    overall |-> overall,
                    risk |-> risk_from_scores(cin.stress, cin.anxiety, cin.depression, overall)]
    /\ UNCHANGED cin


(***************************************************************************)
(* Python values as json.loads yields them.  One record shape for all:     *)
(*   t  the type, n  the number (an int; a float in tenths; a bool as 0/1),*)
(*   s  the characters of a str, l  the elements of a list.                *)
(* A str is a sequence of one-character strings; " " is whitespace.        *)
(***************************************************************************)
PyAbsent == [t |-> "absent", n |-> 0, s |-> <<>>, l |-> <<>>]
PyNull == [t |-> "null", n |-> 0, s |-> <<>>, l |-> <<>>]
PyInt(i) == [t |-> "int", n |-> i, s |-> <<>>, l |-> <<>>]
PyFloat(tenths) == [t |-> "float", n |-> tenths, s |-> <<>>, l |-> <<>>]
PyStr(chars) == [t |-> "str", n |-> 0, s |-> chars, l |-> <<>>]
PyList(elems) == [t |-> "list", n |-> 0, s |-> <<>>, l |-> elems]
PyBool(b) == [t |-> "bool", n |-> b, s |-> <<>>, l |-> <<>>]
\* NaN, Infinity, -Infinity: json.loads accepts them; int() raises on them
PyNonFinite == [t |-> "nonfinite", n |-> 0, s |-> <<>>, l |-> <<>>]

\* A slip a maintainer could make: the text taken as it is.
Strip_Nothing(cs) == cs

\* str.strip(): leading and trailing whitespace removed
RECURSIVE LStrip(_)
LStrip(cs) == IF cs # <<>> /\ Head(cs) = " " THEN LStrip(Tail(cs)) ELSE cs
RECURSIVE RStrip(_)
RStrip(cs) ==
    IF cs # <<>> /\ cs[Len(cs)] = " " THEN RStrip(SubSeq(cs, 1, Len(cs) - 1)) ELSE cs
Strip(cs) == RStrip(LStrip(cs))

Digits == <<"0", "1", "2", "3", "4", "5", "6", "7", "8", "9">>
IsDigit(c) == \E i \in 1..Len(Digits) : Digits[i] = c
DigitVal(c) == (CHOOSE i \in 1..Len(Digits) : Digits[i] = c) - 1
RECURSIVE DecimalValue(_, _)
DecimalValue(cs, acc) ==
    IF cs = <<>> THEN acc ELSE DecimalValue(Tail(cs), 10 * acc + DigitVal(Head(cs)))

\* int(v): [ok |-> FALSE] stands for the ValueError / TypeError int() raises
IntFails == [ok |-> FALSE, n |-> 0]
int_of_str(chars) ==
    LET body == Strip(chars)
        signed == body # <<>> /\ Head(body) \in {"-", "+"}
        digits == IF signed THEN Tail(body) ELSE body
    IN  IF digits # <<>> /\ \A i \in 1..Len(digits) : IsDigit(digits[i])
        THEN [ok |-> TRUE,
              n |-> IF signed /\ Head(body) = "-"
                    THEN 0 - DecimalValue(digits, 0) ELSE DecimalValue(digits, 0)]
        ELSE IntFails

py_int(v) ==
    CASE v.t = "int" -> [ok |-> TRUE, n |-> v.n]
      [] v.t = "bool" -> [ok |-> TRUE, n |-> v.n]
      [] v.t = "float" ->      \* truncation toward zero
            [ok |-> TRUE, n |-> IF v.n >= 0 THEN v.n \div 10 ELSE 0 - ((0 - v.n) \div 10)]
      [] v.t = "str" -> int_of_str(v.s)
      [] OTHER -> IntFails

\* str(v) of a value that is not a str, as one token of text
py_str(v) ==
    CASE v.t = "str" -> v.s
      [] v.t = "int" -> <<"<int>">>
      [] v.t = "float" -> <<"<float>">>
      [] v.t = "bool" -> <<"<bool>">>
      [] v.t = "nonfinite" -> <<"<float>">>
      [] v.t = "null" -> <<"N", "o", "n", "e">>
      [] OTHER -> <<"<list>">>

Min(a, b) == IF a < b THEN a ELSE b
Max(a, b) == IF a > b THEN a ELSE b

\* A slip a maintainer could make: the coerced number returned as it is.
clamp_int_Unclamped(v) ==
    LET r == py_int(v)
    IN  IF r.ok THEN r.n ELSE SCORE_LO

\* _clamp_int(v, lo=0, hi=10)
clamp_int(v) ==
    LET r == py_int(v)
        n == IF r.ok THEN r.n ELSE SCORE_LO
    IN  Max(SCORE_LO, Min(SCORE_HI, n))

(***************************************************************************)
(* validate_llm_json.  A dict is a record over the six required keys with  *)
(* PyAbsent for a key it does not hold.                                    *)
(***************************************************************************)
MAX_RECS == 6
MIN_RECS == 3

required == <<"stress_score", "anxiety_score", "depression_score",
              "rationale_short", "ai_message", "recommendations">>

\* obj.get(k, default)
dict_get(obj, k, default) == IF obj[k] = PyAbsent THEN default ELSE obj[k]

RECURSIVE missing_key_errors(_, _)
missing_key_errors(obj, i) ==
    IF i > Len(required) THEN <<>>
    ELSE (IF obj[required[i]] = PyAbsent THEN <<"Missing key">> ELSE <<>>)
         \o missing_key_errors(obj, i + 1)

\* A slip a maintainer could make: the check of the minimum left out.
validate_llm_json_NoMinimum(obj) ==
    LET e0 == missing_key_errors(obj, 1)
        stress == clamp_int(dict_get(obj, "stress_score", PyInt(0)))
        anxiety == clamp_int(dict_get(obj, "anxiety_score", PyInt(0)))
        depression == clamp_int(dict_get(obj, "depression_score", PyInt(0)))
        rationale == dict_get(obj, "rationale_short", PyStr(<<>>))
        e1 == IF rationale.t # "str" THEN <<"rationale_short must be string">> ELSE <<>>
        ai_message == dict_get(obj, "ai_message", PyStr(<<>>))
        e2 == IF ai_message.t # "str" THEN <<"ai_message must be string">> ELSE <<>>
        recs == dict_get(obj, "recommendations", PyList(<<>>))
        strs == [i \in 1..Len(recs.l) |-> py_str(recs.l[i])]
        kept == IF recs.t # "list" THEN <<>> ELSE SubSeq(strs, 1, Min(Len(strs), MAX_RECS))
        e3 == IF recs.t # "list" THEN <<"recommendations must be an array">>
              ELSE <<>>
    IN  [normalized |-> [stress_score |-> stress,
                         anxiety_score |-> anxiety,
                         depression_score |-> depression,
                         rationale_short |-> Strip(py_str(rationale)),
                         ai_message |-> Strip(py_str(ai_message)),
                         recommendations |-> kept],
         errors |-> e0 \o e1 \o e2 \o e3]

validate_llm_json(obj) ==
    LET e0 == missing_key_errors(obj, 1)
        stress == clamp_int(dict_get(obj, "stress_score", PyInt(0)))
        anxiety == clamp_int(dict_get(obj, "anxiety_score", PyInt(0)))
        depression == clamp_int(dict_get(obj, "depression_score", PyInt(0)))
        rationale == dict_get(obj, "rationale_short", PyStr(<<>>))
        e1 == IF rationale.t # "str" THEN <<"rationale_short must be string">> ELSE <<>>
        ai_message == dict_get(obj, "ai_message", PyStr(<<>>))
        e2 == IF ai_message.t # "str" THEN <<"ai_message must be string">> ELSE <<>>
        recs == dict_get(obj, "recommendations", PyList(<<>>))
        strs == [i \in 1..Len(recs.l) |-> py_str(recs.l[i])]
        kept == IF recs.t # "list" THEN <<>> ELSE SubSeq(strs, 1, Min(Len(strs), MAX_RECS))
        e3 == IF recs.t # "list" THEN <<"recommendations must be an array">>
              ELSE IF Len(kept) < MIN_RECS
                   THEN <<"recommendations must have at least 3 items">> ELSE <<>>
    IN  [normalized |-> [stress_score |-> stress,
                         anxiety_score |-> anxiety,
                         depression_score |-> depression,
                         rationale_short |-> Strip(py_str(rationale)),
                         ai_message |-> Strip(py_str(ai_message)),
                         recommendations |-> kept],
         errors |-> e0 \o e1 \o e2 \o e3]


(***************************************************************************)
(* Text.  A reply is a sequence of tokens:                                 *)
(*   "{" "}"     the braces                                                *)
(*   "M"         a well-formed member list, denoting the object a_obj      *)
(*   "S"         the member list StubProvider dumps (StubObject)           *)
(*   "[]" "7"    a JSON array literal, a JSON number literal               *)
(*   "D"         a member list nested deeper than the decoder's recursion  *)
(*               limit (or holding an integer of more digits than int()    *)
(*               converts): json.loads raises on it, and the exception is  *)
(*               not a JSONDecodeError                                     *)
(*   "<fence json>" "<fence>"   the code-fence markers, with and without  *)
(*               the json tag                                              *)
(*   " "         whitespace,  "x"  a word of prose                         *)
(***************************************************************************)
RECURSIVE Squeeze(_)
Squeeze(text) ==
    IF text = <<>> THEN <<>>
    ELSE IF Head(text) = " " THEN Squeeze(Tail(text))
    ELSE <<Head(text)>> \o Squeeze(Tail(text))

EmptyObject ==
    [k \in {required[i] : i \in 1..Len(required)} |-> PyAbsent]

\* json.dumps(...) of StubProvider.analyze
StubObject ==
    [stress_score |-> PyInt(3),
     anxiety_score |-> PyInt(3),
     depression_score |-> PyInt(2),
     rationale_short |-> PyStr(<<"s", "t", "u", "b">>),
     ai_message |-> PyStr(<<"t", "h", "a", "n", "k", "s">>),
     recommendations |-> PyList(<<PyStr(<<"a">>), PyStr(<<"b">>), PyStr(<<"c">>)>>)]
StubText == <<"{", "S", "}">>

\* json.loads(text): ok = FALSE stands for json.JSONDecodeError.
\* Whitespace between the tokens of a document is insignificant.
JsonFails == [ok |-> FALSE, t |-> "none", obj |-> EmptyObject]
\* RecursionError, or the ValueError of the integer digit limit
JsonOverflows == [ok |-> FALSE, t |-> "RecursionError", obj |-> EmptyObject]
json_loads(text, m_obj) ==
    LET core == Squeeze(text)
    IN  CASE Len(core) >= 2 /\ core[1] = "{" /\ core[2] = "D" -> JsonOverflows
          [] core = <<"{", "M", "}">> -> [ok |-> TRUE, t |-> "dict", obj |-> m_obj]
          [] core = <<"{", "S", "}">> -> [ok |-> TRUE, t |-> "dict", obj |-> StubObject]
          [] core = <<"{", "}">> -> [ok |-> TRUE, t |-> "dict", obj |-> EmptyObject]
          [] core = <<"[]">> -> [ok |-> TRUE, t |-> "list", obj |-> EmptyObject]
          [] core = <<"7">> -> [ok |-> TRUE, t |-> "int", obj |-> EmptyObject]
          [] OTHER -> JsonFails

Contains(text, tok) == \E i \in 1..Len(text) : text[i] = tok

\* json_repair.repair_json(text): a third-party heuristic.  What it may return
\* for a text: the object it recovers, an object with the members lost, another
\* JSON value found in the text, the empty string when nothing is recoverable;
\* or it raises (raises = TRUE; also the ImportError of a missing package).
RepairRaises == [raises |-> TRUE, text |-> <<>>]
RepairResults(text) ==
    {RepairRaises}
    \cup {[raises |-> FALSE, text |-> <<>>]}
    \cup (IF Contains(text, "{")
          THEN {[raises |-> FALSE, text |-> <<"{", "}">>]} ELSE {})
    \cup (IF Contains(text, "{") /\ Contains(text, "M")
          THEN {[raises |-> FALSE, text |-> <<"{", "M", "}">>]} ELSE {})
    \cup (IF Contains(text, "[]")
          THEN {[raises |-> FALSE, text |-> <<"[]">>]} ELSE {})

\* re.sub(fence + r'\s*', '', text)
RECURSIVE RemoveFence(_, _, _)
RemoveFence(text, fence, eating) ==
    IF text = <<>> THEN <<>>
    ELSE IF Head(text) = fence THEN RemoveFence(Tail(text), fence, TRUE)
    ELSE IF eating /\ Head(text) = " " THEN RemoveFence(Tail(text), fence, TRUE)
    ELSE <<Head(text)>> \o RemoveFence(Tail(text), fence, FALSE)

\* str.find / str.rfind, 1-based; 0 stands for Python's -1
Find(text, tok) ==
    IF Contains(text, tok)
    THEN CHOOSE i \in 1..Len(text) : text[i] = tok /\ \A j \in 1..(i - 1) : text[j] # tok
    ELSE 0
RFind(text, tok) ==
    IF Contains(text, tok)
    THEN CHOOSE i \in 1..Len(text) : text[i] = tok /\ \A j \in (i + 1)..Len(text) : text[j] # tok
    ELSE 0

\* The text _extract_json_from_response hands to repair_json, <<>> if it does not
repair_argument(text0) ==
    LET text == Strip(RemoveFence(RemoveFence(text0, "<fence json>", FALSE), "<fence>", FALSE))
        start_idx == Find(text, "{")
        end_idx == RFind(text, "}")
    IN  IF start_idx # 0 /\ end_idx # 0 /\ end_idx > start_idx
        THEN SubSeq(text, start_idx, end_idx)
        ELSE IF start_idx # 0 THEN SubSeq(text, start_idx, Len(text))
        ELSE <<>>

\* The text after the two re.sub calls and text.strip()
strip_fences(text0) ==
    Strip(RemoveFence(RemoveFence(text0, "<fence json>", FALSE), "<fence>", FALSE))

\* _extract_json_from_response(text0) raises: json.loads(extracted) at line 78
\* raises an exception that `except json.JSONDecodeError` does not catch
extract_raises(text0, m_obj) ==
    LET text == strip_fences(text0)
        start_idx == Find(text, "{")
        end_idx == RFind(text, "}")
    IN  /\ start_idx # 0 /\ end_idx # 0 /\ end_idx > start_idx
        /\ json_loads(SubSeq(text, start_idx, end_idx), m_obj) = JsonOverflows

\* _extract_json_from_response(text0); rep is what repair_json does if called
extract_json_from_response(text0, m_obj, rep) ==
    LET text == Strip(RemoveFence(RemoveFence(text0, "<fence json>", FALSE), "<fence>", FALSE))
        start_idx == Find(text, "{")
        end_idx == RFind(text, "}")
        extracted == SubSeq(text, start_idx, end_idx)
        tail == SubSeq(text, start_idx, Len(text))
    IN  IF start_idx # 0 /\ end_idx # 0 /\ end_idx > start_idx
        THEN IF json_loads(extracted, m_obj).ok THEN extracted
             ELSE IF rep.raises THEN extracted ELSE rep.text
        ELSE IF start_idx # 0 /\ ~rep.raises /\ json_loads(rep.text, m_obj).ok
             THEN rep.text
        ELSE text


(***************************************************************************)
(* The providers.  beh is what the outside world does during one call:     *)
(*   beh.provider  settings.LLM_PROVIDER: "stub" or "openrouter"           *)
(*   beh.net       how the HTTP exchange goes                              *)
(*   beh.content   data["choices"][0]["message"]["content"]                *)
(*   beh.rep1      what repair_json does inside the extractor              *)
(*   beh.rep2      what repair_json does inside analyze_text               *)
(***************************************************************************)
ProviderReturn(text) == [raises |-> FALSE, exc |-> "", text |-> text]
ProviderRaise(exc) == [raises |-> TRUE, exc |-> exc, text |-> <<>>]

OpenRouterProvider_analyze(beh, m_obj) ==
    CASE beh.net = "no_api_key" -> ProviderRaise("RuntimeError")
      [] beh.net = "post_raises" -> ProviderRaise("RequestException")
      [] beh.net = "status_not_200" -> ProviderRaise("RuntimeError")
      [] beh.net = "body_not_json" -> ProviderRaise("JSONDecodeError")  \* resp.json()
      [] beh.net = "shape_key" -> ProviderRaise("RuntimeError")   \* KeyError, IndexError
      [] beh.net = "shape_type" -> ProviderRaise("TypeError")     \* content is null, ...
      [] OTHER ->
            IF extract_raises(beh.content, m_obj) THEN ProviderRaise("RecursionError")
            ELSE ProviderReturn(extract_json_from_response(beh.content, m_obj, beh.rep1))

StubProvider_analyze == ProviderReturn(StubText)

\* get_provider().analyze(...)
provider_analyze(beh, m_obj) ==
    IF beh.provider = "openrouter" THEN OpenRouterProvider_analyze(beh, m_obj)
    ELSE StubProvider_analyze

(***************************************************************************)
(* analyze_text.  The result says whether the call returned a payload or   *)
(* raised, and records what happened on the way: the number of provider    *)
(* calls, the provider's reply, and the object handed to the normalizer.   *)
(***************************************************************************)
RAW_LIMIT == 1000

\* raw[:1000]
Truncate(text) == SubSeq(text, 1, Min(Len(text), RAW_LIMIT))

FallbackRecommendations ==
    <<<<"Try rephrasing your message.">>,
      <<"Keep it short and specific.">>,
      <<"If urgent, contact a professional.">>>>

FailedPayload(rationale, ai_message, recommendations, raw) ==
    [stress_score |-> 0,
     anxiety_score |-> 0,
     depression_score |-> 0,
     risk_level |-> LOW,
     alert_recommended |-> FALSE,
     rationale_short |-> rationale,
     ai_message |-> ai_message,
     recommendations |-> recommendations,
     raw_llm_json |-> raw,
     analysis_status |-> FAILED]

EmptyInputPayload ==
    FailedPayload(<<"No text provided for analysis.">>,
                  <<"Please share what's on your mind.">>,
                  <<<<"Try writing a message about how you're feeling.">>>>,
                  <<>>)

InvalidFormatPayload(raw) ==
    FailedPayload(<<"Analysis failed due to invalid response format.">>,
                  <<"I had trouble processing that message. Please try again.">>,
                  FallbackRecommendations,
                  Truncate(raw))

ProviderErrorPayload(exc) ==
    FailedPayload(<<"Analysis failed due to provider error.">>,
                  <<"I had trouble analyzing that message. Please try again.">>,
                  FallbackRecommendations,
                  Truncate(<<exc>>))

Returned(payload, calls, reply, parsed, obj) ==
    [kind |-> "payload", payload |-> payload, exc |-> "",
     calls |-> calls, reply |-> reply, parsed |-> parsed, obj |-> obj]
Raised(exc, calls, reply) ==
    [kind |-> "raised", payload |-> EmptyInputPayload, exc |-> exc,
     calls |-> calls, reply |-> reply, parsed |-> FALSE, obj |-> EmptyObject]
NoOutcome ==
    [kind |-> "none", payload |-> EmptyInputPayload, exc |-> "",
     calls |-> 0, reply |-> <<>>, parsed |-> FALSE, obj |-> EmptyObject]

\* A slip a maintainer could make: the alert flag withheld from an outcome
\* whose reply needed corrections.
analyze_parsed_StatusGated(parsed, raw, reply) ==
    IF parsed.t # "dict"
    THEN Raised(IF parsed.t = "list" THEN "AttributeError" ELSE "TypeError", 1, reply)
    ELSE LET v == validate_llm_json(parsed.obj)
             stress == v.normalized.stress_score
             anxiety == v.normalized.anxiety_score
             depression == v.normalized.depression_score
             overall == compute_overall(stress, anxiety, depression)
             risk == risk_from_scores(stress, anxiety, depression, overall)
         IN  Returned([stress_score |-> stress,
                       anxiety_score |-> anxiety,
                       depression_score |-> depression,
                       risk_level |-> risk,
                       alert_recommended |-> risk \in {HIGH, CRITICAL} /\ v.errors = <<>>,
                       rationale_short |-> v.normalized.rationale_short,
                       ai_message |-> v.normalized.ai_message,
                       recommendations |-> v.normalized.recommendations,
                       raw_llm_json |-> raw,
                       analysis_status |-> IF v.errors = <<>> THEN OK ELSE REPAIRED],
                      1, reply, TRUE, parsed.obj)

\* Lines 338-361: normalize, classify, build the payload.  validate_llm_json
\* raises on a value that is not a dict (obj.get on a list or a str; `in` on a number).
analyze_parsed(parsed, raw, reply) ==
    IF parsed.t # "dict"
    THEN Raised(IF parsed.t = "list" THEN "AttributeError" ELSE "TypeError", 1, reply)
    ELSE LET v == validate_llm_json(parsed.obj)
             stress == v.normalized.stress_score
             anxiety == v.normalized.anxiety_score
             depression == v.normalized.depression_score
             overall == compute_overall(stress, anxiety, depression)
             risk == risk_from_scores(stress, anxiety, depression, overall)
         IN  Returned([stress_score |-> stress,
                       anxiety_score |-> anxiety,
                       depression_score |-> depression,
                       risk_level |-> risk,
                       alert_recommended |-> risk \in {HIGH, CRITICAL},
                       rationale_short |-> v.normalized.rationale_short,
                       ai_message |-> v.normalized.ai_message,
                       recommendations |-> v.normalized.recommendations,
                       raw_llm_json |-> raw,
                       analysis_status |-> IF v.errors = <<>> THEN OK ELSE REPAIRED],
                      1, reply, TRUE, parsed.obj)

analyze_text(user_text, beh, m_obj) ==
    LET reply == provider_analyze(beh, m_obj)
        first == json_loads(reply.text, m_obj)
        repaired == beh.rep2.text               \* raw = repair_json(raw)
        second == json_loads(repaired, m_obj)
    IN  IF user_text = <<>> \/ Strip(user_text) = <<>>
        THEN Returned(EmptyInputPayload, 0, <<>>, FALSE, EmptyObject)
        ELSE IF reply.raises
        THEN IF reply.exc = "JSONDecodeError"
             \* except json.JSONDecodeError: logs raw[:500] with raw never assigned
             THEN Raised("UnboundLocalError", 1, <<>>)
             ELSE Returned(ProviderErrorPayload(reply.exc), 1, <<>>, FALSE, EmptyObject)
        ELSE IF first.ok THEN analyze_parsed(first, reply.text, reply.text)
        ELSE IF first = JsonOverflows      \* caught by `except Exception`
        THEN Returned(ProviderErrorPayload("RecursionError"), 1, reply.text, FALSE, EmptyObject)
        ELSE IF beh.rep2.raises
        THEN Returned(InvalidFormatPayload(reply.text), 1, reply.text, FALSE, EmptyObject)
        ELSE IF ~second.ok
        THEN Returned(InvalidFormatPayload(repaired), 1, reply.text, FALSE, EmptyObject)
        ELSE analyze_parsed(second, repaired, reply.text)

(***************************************************************************)
(* SpecAnalyze: analyze_text on every user text, reply and object below.   *)
(***************************************************************************)
UserTexts == {<<>>, <<" ">>, <<"h", "i">>}

StressValues ==
    {PyAbsent, PyInt(-1), PyInt(3), PyInt(8), PyInt(10), PyInt(11),
     PyFloat(37), PyStr(<<"7">>), PyStr(<<"a">>)}
AnxietyValues == {PyAbsent, PyInt(3), PyInt(8)}
DepressionValues == {PyInt(2), PyInt(9), PyStr(<<" ", "9">>)}
RationaleValues == {PyStr(<<"o", "k">>), PyInt(5)}
AiMessageValues == {PyAbsent, PyNull, PyStr(<<" ">>), PyStr(<<" ", "h", "i", " ">>)}
Rec == PyStr(<<"r">>)
RecommendationsValues ==
    {PyAbsent, PyStr(<<"r">>), PyList(<<Rec, Rec>>),
     PyList(<<Rec, PyInt(1), Rec>>), PyList(<<Rec, Rec, Rec, Rec, Rec, Rec>>),
     PyList(<<Rec, Rec, Rec, Rec, Rec, Rec, Rec>>)}

Objects ==
    [stress_score : StressValues,
     anxiety_score : AnxietyValues,
     depression_score : DepressionValues,
     rationale_short : RationaleValues,
     ai_message : AiMessageValues,
     recommendations : RecommendationsValues]

Contents ==
    {<<"{", "M", "}">>,
     <<"<fence json>", " ", "{", "M", "}", " ", "<fence>">>,
     <<"x", " ", "{", " ", "M", "}", " ", "x">>,
     <<"{", "M", "}", "x", "}">>,
     <<"{", "M">>,
     <<"{", "}">>,
     <<"x">>,
     <<"[]">>,
     <<"7">>,
     <<>>}

NetFailures ==
    {"no_api_key", "post_raises", "status_not_200", "body_not_json", "shape_key", "shape_type"}

NoRepair == RepairRaises

\* Every way one provider call can go
Behaviours(m_obj) ==
    {[provider |-> "stub", net |-> "ok", content |-> <<>>, rep1 |-> NoRepair, rep2 |-> NoRepair]}
    \cup {[provider |-> "openrouter", net |-> f, content |-> <<>>,
           rep1 |-> NoRepair, rep2 |-> NoRepair] : f \in NetFailures}
    \cup UNION {
           UNION {
             {[provider |-> "openrouter", net |-> "ok", content |-> c, rep1 |-> r1, rep2 |-> r2]
                : r2 \in RepairResults(extract_json_from_response(c, m_obj, r1))}
             : r1 \in RepairResults(repair_argument(c))}
           : c \in Contents}

NormalizeIdle ==
    /\ v_obj = StubObject
    /\ v_out = <<>>

NoExtraction == [kind |-> "none", exc |-> "", text |-> <<>>]

ExtractIdle ==
    /\ x_text = <<>>
    /\ x_out = NoExtraction

\* The other specifications park the variables of the two pure functions here.
PureIdle == NormalizeIdle /\ ExtractIdle

AnalyzeIdle ==
    /\ a_text = <<>>
    /\ a_obj = StubObject
    /\ a_out = NoOutcome

AnalyzeInit ==
    /\ a_out = NoOutcome
    /\ \/ a_text \in UserTexts /\ a_obj = StubObject
       \/ a_text = <<"h", "i">> /\ a_obj \in Objects

AnalyzeText ==
    /\ a_out.kind = "none"
    /\ \E beh \in Behaviours(a_obj) : a_out' = analyze_text(a_text, beh, a_obj)
    /\ UNCHANGED <<a_text, a_obj>>

(***************************************************************************)
(* SpecNormalize: validate_llm_json applied to a parsed object, then to    *)
(* the record it returned.                                                 *)
(***************************************************************************)
MaxPasses == 2      \* applications of the normalizer in one behaviour

ScoreInputs ==
    {PyAbsent, PyNull, PyInt(-1), PyInt(0), PyInt(10), PyInt(11),
     PyFloat(-5), PyFloat(37), PyFloat(109), PyNonFinite, PyBool(1),
     PyStr(<<"7">>), PyStr(<<" ", "-", "3">>), PyStr(<<"1", "2">>),
     PyStr(<<"7", ".", "5">>), PyStr(<<"a">>), PyList(<<>>)}

NormalizeObjects ==
    [stress_score : ScoreInputs,
     anxiety_score : {PyAbsent, PyInt(5), PyInt(12), PyStr(<<"a">>)},
     depression_score : {PyNull, PyInt(-4), PyInt(9), PyFloat(99)},
     rationale_short : RationaleValues,
     ai_message : AiMessageValues,
     recommendations : RecommendationsValues \cup {PyNull, PyList(<<>>)}]

\* The record validate_llm_json returns, as the dict it is
as_object(normalized) ==
    [stress_score |-> PyInt(normalized.stress_score),
     anxiety_score |-> PyInt(normalized.anxiety_score),
     depression_score |-> PyInt(normalized.depression_score),
     rationale_short |-> PyStr(normalized.rationale_short),
     ai_message |-> PyStr(normalized.ai_message),
     recommendations |->
        PyList([i \in 1..Len(normalized.recommendations) |->
                   PyStr(normalized.recommendations[i])])]

NormalizeInit ==
    /\ v_obj \in NormalizeObjects
    /\ v_out = <<>>

\* normalized, errors = validate_llm_json(obj), the first time on the parsed
\* object and then on the record the pass before returned
Normalize ==
    /\ Len(v_out) < MaxPasses
    /\ v_out' = Append(v_out,
                       validate_llm_json(IF v_out = <<>> THEN v_obj
                                         ELSE as_object(v_out[Len(v_out)].normalized)))
    /\ UNCHANGED v_obj

(***************************************************************************)
(* SpecExtract: _extract_json_from_response applied to every text of at    *)
(* most MaxTextLen tokens.                                                 *)
(***************************************************************************)
MaxTextLen == 4     \* tokens of a text

Tokens == {"{", "}", "M", "D", "x", " ", "<fence json>", "<fence>"}

Texts == UNION {[1..n -> Tokens] : n \in 0..MaxTextLen}

ExtractReturn(text) == [kind |-> "returned", exc |-> "", text |-> text]
ExtractRaise(exc) == [kind |-> "raised", exc |-> exc, text |-> <<>>]

ExtractInit ==
    /\ x_text \in Texts
    /\ x_out = NoExtraction

\* content = _extract_json_from_response(content)
Extract ==
    /\ x_out.kind = "none"
    /\ \E rep \in RepairResults(repair_argument(x_text)) :
          x_out' = IF extract_raises(x_text, StubObject)
                   THEN ExtractRaise("RecursionError")
                   ELSE ExtractReturn(extract_json_from_response(x_text, StubObject, rep))
    /\ UNCHANGED x_text

(***************************************************************************)
(* The alert policy (alerts/services.py) over the rows it reads.           *)
(* Times are seconds; NoTime is a null DateTimeField.                      *)
(***************************************************************************)
NoTime == -1

EMAIL == "EMAIL"
SMS == "SMS"

SENT == "SENT"
SKIPPED_RATE_LIMIT == "SKIPPED_RATE_LIMIT"
SKIPPED_NO_CONSENT == "SKIPPED_NO_CONSENT"
SKIPPED_NO_CONTACTS == "SKIPPED_NO_CONTACTS"
AlertStatus == {SENT, FAILED, SKIPPED_RATE_LIMIT, SKIPPED_NO_CONSENT, SKIPPED_NO_CONTACTS}

RATE_LIMIT_SECONDS == 24 * 3600

\* A slip a maintainer could make: the CRITICAL bypass dropped.
rate_limited_NoBypass(prof, risk_level, t) ==
    IF prof.last_alert_sent_at = NoTime THEN FALSE
    ELSE t - prof.last_alert_sent_at < RATE_LIMIT_SECONDS

\* _rate_limited(profile, risk_level), with t = timezone.now()
rate_limited(prof, risk_level, t) ==
    IF risk_level = CRITICAL THEN FALSE
    ELSE IF prof.last_alert_sent_at = NoTime THEN FALSE
    ELSE t - prof.last_alert_sent_at < RATE_LIMIT_SECONDS

\* The names contacts can have, in the order order_by("name") gives them
NameOrder == <<"amy", "bob", "cat", "dan">>

\* [c.destination for c in EmergencyContact.objects.filter(
\*      user=user, enabled=True, channel=EMAIL).order_by("name")]
RECURSIVE destinations_from(_, _)
destinations_from(cs, i) ==
    IF i > Len(NameOrder) THEN <<>>
    ELSE LET hit == {c \in cs : c.name = NameOrder[i] /\ c.enabled /\ c.channel = EMAIL}
         IN  (IF hit = {} THEN <<>> ELSE <<(CHOOSE c \in hit : TRUE).destination>>)
             \o destinations_from(cs, i + 1)
destinations(cs) == destinations_from(cs, 1)

\* An AlertEvent row
AlertEvent(analysis, sent_to, status, provider_response, sent_at) ==
    [analysis_result |-> analysis.id,
     risk_level |-> analysis.risk_level,
     channel |-> EMAIL,
     sent_to |-> sent_to,
     status |-> status,
     provider_response |-> provider_response,
     sent_at |-> sent_at]

\* maybe_send_alert returning None
NoAlertEvent ==
    [analysis_result |-> <<0, 0>>, risk_level |-> LOW, channel |-> EMAIL, sent_to |-> <<>>,
     status |-> "None", provider_response |-> "", sent_at |-> NoTime]

\* Exceptions of django.db
LOCKED == "OperationalError: database is locked"
OTHER_DB_ERROR == "OperationalError: disk I/O error"
BROKEN_TRANSACTION == "TransactionManagementError"
OperationalErrors == {LOCKED, OTHER_DB_ERROR}

\* A slip a maintainer could make: the accepted timestamp not looked at.
consent_given_EnabledOnly(prof) == prof.consent_alerts_enabled

\* Line 68, negated: profile.consent_alerts_enabled and profile.consent_text_accepted_at
consent_given(prof) ==
    prof.consent_alerts_enabled /\ prof.consent_text_accepted_at # NoTime

\* A slip a maintainer could make: the contacts looked at before the consent.
alert_branch_ContactsFirst(prof, dests, analysis, t) ==
    IF ~analysis.alert_recommended THEN "none"
    ELSE IF dests = <<>> THEN SKIPPED_NO_CONTACTS
    ELSE IF ~consent_given(prof) THEN SKIPPED_NO_CONSENT
    ELSE IF rate_limited(prof, analysis.risk_level, t) THEN SKIPPED_RATE_LIMIT
    ELSE "deliver"

\* A slip a maintainer could make: the contacts not looked at.
alert_branch_NoContactsCheck(prof, dests, analysis, t) ==
    IF ~analysis.alert_recommended THEN "none"
    ELSE IF ~consent_given(prof) THEN SKIPPED_NO_CONSENT
    ELSE IF rate_limited(prof, analysis.risk_level, t) THEN SKIPPED_RATE_LIMIT
    ELSE "deliver"

\* The branch maybe_send_alert takes: its early returns, in the order of lines
\* 60, 68, 80 and 92, or the delivery of lines 104-133.
alert_branch(prof, dests, analysis, t) ==
    IF ~analysis.alert_recommended THEN "none"
    ELSE IF ~consent_given(prof) THEN SKIPPED_NO_CONSENT
    ELSE IF dests = <<>> THEN SKIPPED_NO_CONTACTS
    ELSE IF rate_limited(prof, analysis.risk_level, t) THEN SKIPPED_RATE_LIMIT
    ELSE "deliver"

\* The provider_response of a skip
SkipResponse(status) ==
    CASE status = SKIPPED_NO_CONSENT -> "Consent not enabled/accepted."
      [] status = SKIPPED_NO_CONTACTS -> "No enabled email contacts."
      [] status = SKIPPED_RATE_LIMIT -> "Rate limited (24h)."

\* What one call of maybe_send_alert does:
\*   raised    the exception leaving the call, "" when it returns
\*   ret       the AlertEvent returned (NoAlertEvent for None)
\*   created   the AlertEvent rows the call inserted
\*   set_last, last   whether profile.save wrote last_alert_sent_at, and the value
\*   mails     the messages handed to the transport and accepted by it
\*   sends     the calls of _send_email
\*   faulted   whether a database write of the call failed
AlertReturn(event, set_last, mails, sends) ==
    [raised |-> "", ret |-> event,
     created |-> IF event = NoAlertEvent THEN <<>> ELSE <<event>>,
     set_last |-> set_last, last |-> event.sent_at,
     mails |-> mails, sends |-> sends, faulted |-> FALSE]
AlertRaise(exc, created, mails, sends) ==
    [raised |-> exc, ret |-> NoAlertEvent, created |-> created,
     set_last |-> FALSE, last |-> NoTime,
     mails |-> mails, sends |-> sends, faulted |-> TRUE]

\* A slip a maintainer could make: the transport's exception not caught.
maybe_send_alert_TransportPropagates(prof, cs, analysis, t, env) ==
    LET dests == destinations(cs)
        branch == alert_branch(prof, dests, analysis, t)
        mail == [analysis_result |-> analysis.id, to |-> dests,
                 risk_level |-> analysis.risk_level, at |-> t]
        sent == AlertEvent(analysis, dests, SENT, "Email sent_count=1", t)
    IN  IF branch = "none"
        THEN AlertReturn(NoAlertEvent, FALSE, <<>>, 0)
        ELSE IF branch # "deliver"
        THEN IF env.fault_at = 1 THEN AlertRaise(env.fault_kind, <<>>, <<>>, 0)
             ELSE AlertReturn(AlertEvent(analysis, <<>>, branch, SkipResponse(branch), NoTime),
                              FALSE, <<>>, 0)
        ELSE IF env.transport = "raises"
        THEN AlertRaise("SMTPException", <<>>, <<>>, 1)
        ELSE IF env.fault_at = 1
        THEN AlertRaise(BROKEN_TRANSACTION, <<>>, <<mail>>, 1)
        ELSE IF env.fault_at = 2
        THEN AlertRaise(BROKEN_TRANSACTION, <<sent>>, <<mail>>, 1)
        ELSE AlertReturn(sent, TRUE, <<mail>>, 1)

\* maybe_send_alert(user, analysis) at time t, reading prof and cs.
\* env is what the outside world does during the call:
\*   env.transport   "ok" or "raises": msg.send(fail_silently=False)
\*   env.fault_at    0, or n: the n-th database write of the call raises
\*   env.fault_kind  the OperationalError it raises
\* Model.save marks the open transaction for rollback when its write fails
\* (django.db.transaction.mark_for_rollback_on_error), so the create in the
\* `except Exception` handler that follows a failed write raises in turn.
maybe_send_alert(prof, cs, analysis, t, env) ==
    LET dests == destinations(cs)
        branch == alert_branch(prof, dests, analysis, t)
        mail == [analysis_result |-> analysis.id, to |-> dests,
                 risk_level |-> analysis.risk_level, at |-> t]
        sent == AlertEvent(analysis, dests, SENT, "Email sent_count=1", t)
        failed == AlertEvent(analysis, <<>>, FAILED, "transport error", NoTime)
    IN  IF branch = "none"
        THEN AlertReturn(NoAlertEvent, FALSE, <<>>, 0)
        ELSE IF branch # "deliver"
        THEN IF env.fault_at = 1 THEN AlertRaise(env.fault_kind, <<>>, <<>>, 0)
             ELSE AlertReturn(AlertEvent(analysis, <<>>, branch, SkipResponse(branch), NoTime),
                              FALSE, <<>>, 0)
        ELSE IF env.transport = "raises"
        THEN IF env.fault_at = 1 THEN AlertRaise(env.fault_kind, <<>>, <<>>, 1)
             ELSE AlertReturn(failed, FALSE, <<>>, 1)
        ELSE IF env.fault_at = 1      \* AlertEvent.objects.create(status=SENT) fails
        THEN AlertRaise(BROKEN_TRANSACTION, <<>>, <<mail>>, 1)
        ELSE IF env.fault_at = 2      \* profile.save(update_fields=...) fails
        THEN AlertRaise(BROKEN_TRANSACTION, <<sent>>, <<mail>>, 1)
        ELSE AlertReturn(sent, TRUE, <<mail>>, 1)

AlertEnvs ==
    [transport : {"ok", "raises"}, fault_at : {0}, fault_kind : {LOCKED}]
    \cup [transport : {"ok", "raises"}, fault_at : {1, 2}, fault_kind : OperationalErrors]

(***************************************************************************)
(* The database and the chat turns (chat/views.py).                        *)
(*                                                                         *)
(* settings.DATABASES is SQLite: a transaction takes the database's single *)
(* write lock at its first write and holds it until it commits or rolls    *)
(* back; a write that cannot get the lock within the timeout raises        *)
(* OperationalError("database is locked").                                 *)
(***************************************************************************)
MaxTicks == 1       \* the clock advances at most this many times
MaxFaults == 1      \* database failures injected in one behaviour

TickSeconds == 24 * 3600

Turns == {1, 2}
NoTurn == 0

MAX_RETRIES == 3
RETRY_DELAY_MS == 100

DefaultProfile ==
    [consent_alerts_enabled |-> FALSE,
     consent_text_accepted_at |-> NoTime,
     last_alert_sent_at |-> NoTime]

Contact(name, channel, destination, enabled) ==
    [name |-> name, channel |-> channel, destination |-> destination, enabled |-> enabled]
Amy == Contact("amy", EMAIL, "amy@x", TRUE)
Bob == Contact("bob", EMAIL, "bob@x", TRUE)
Cat == Contact("cat", EMAIL, "cat@x", FALSE)
Dan == Contact("dan", SMS, "+1555", TRUE)
Contacts == {Bob, Amy, Cat, Dan}

NoTx == [open |-> FALSE, rows |-> {}, events |-> <<>>, set_last |-> FALSE, last |-> NoTime]

NoCall ==
    [state |-> "none", attempt |-> 0, recommended |-> FALSE, risk_level |-> LOW,
     enabled |-> FALSE, accepted |-> FALSE, last |-> NoTime, dests |-> <<>>, at |-> 0,
     ret |-> NoAlertEvent, raised |-> "", created |-> <<>>, sends |-> 0, delivered |-> 0]

\* The replies the model gives in the chat turns: the stub's (LOW), one with a
\* stress override (HIGH) and one with a depression override (CRITICAL).
ChatObject(stress, anxiety, depression) ==
    [StubObject EXCEPT !.stress_score = PyInt(stress),
                       !.anxiety_score = PyInt(anxiety),
                       !.depression_score = PyInt(depression)]
Reply(content) ==
    [provider |-> "openrouter", net |-> "ok", content |-> content,
     rep1 |-> NoRepair, rep2 |-> NoRepair]
ChatReplies ==
    {<<[provider |-> "stub", net |-> "ok", content |-> <<>>,
        rep1 |-> NoRepair, rep2 |-> NoRepair], StubObject>>,
     <<Reply(<<"{", "M", "}">>), ChatObject(8, 0, 0)>>,
     <<Reply(<<"{", "M", "}">>), ChatObject(0, 0, 9)>>}
ChatText == <<"h", "i">>

NoPatch ==
    [pc |-> "idle", data |-> [enabled |-> "absent", accepted |-> "absent"],
     instance |-> DefaultProfile]

\* chat/models.py: ChatSessionStatus
ACTIVE == "ACTIVE"
CLOSED == "CLOSED"

\* The session as perform_create leaves it
ActiveSession == [status |-> ACTIVE, ended_at |-> NoTime]

\* The requests of ChatSessionViewSet.close
Closers == {1, 2}

ChatStart(prof, cs) ==
    /\ now = 0
    /\ profile = prof
    /\ contacts = cs
    /\ rows = {}
    /\ events = {}
    /\ lock = NoTurn
    /\ faults = 0
    /\ emails = {}
    /\ pc = [p \in Turns |-> "idle"]
    /\ attempt = [p \in Turns |-> 0]
    /\ llm = [p \in Turns |-> NoOutcome]
    /\ tx = [p \in Turns |-> NoTx]
    /\ call = [p \in Turns |-> NoCall]
    /\ waits = [p \in Turns |-> <<>>]
    /\ patch = NoPatch
    /\ session = ActiveSession
    /\ closing = [c \in Closers |-> "idle"]

ChatIdle == ChatStart(DefaultProfile, {})

\* A user with a fresh profile who has registered contacts
ChatInit == ChatStart(DefaultProfile, Contacts)

\* A user who has given consent, with contacts, and no alert sent so far
ConsentingProfile ==
    [consent_alerts_enabled |-> TRUE,
     consent_text_accepted_at |-> 0,
     last_alert_sent_at |-> NoTime]
ConcurrentInit == ChatStart(ConsentingProfile, Contacts)

\* Time passes.
Tick ==
    /\ now < MaxTicks * TickSeconds
    /\ now' = now + TickSeconds
    /\ UNCHANGED <<profile, contacts, rows, events, lock, faults, emails, turn_vars>>

\* A slip a maintainer could make: a database without the single write lock.
WriteLockFree_NoLock == TRUE

\* Whether a transaction's first write gets SQLite's write lock
WriteLockFree == lock = NoTurn

\* ProfileMeAPIView.patch(request) with request.data = data: data.enabled is
\* "absent", "true" or "false", data.accepted is "absent" or "null".  The save
\* is one autocommit write.
ProfilePatch(data) ==
    /\ WriteLockFree
    /\ LET enabled == IF data.enabled = "absent" THEN profile.consent_alerts_enabled
                      ELSE data.enabled = "true"
           given == IF data.accepted = "absent" THEN profile.consent_text_accepted_at
                    ELSE NoTime
           accepted == IF /\ data.enabled = "true"
                          /\ profile.consent_text_accepted_at = NoTime
                          /\ data.accepted \in {"absent", "null"}
                       THEN now ELSE given
       IN  profile' = [profile EXCEPT !.consent_alerts_enabled = enabled,
                                      !.consent_text_accepted_at = accepted]
    /\ UNCHANGED <<now, contacts, rows, events, lock, faults, emails, turn_vars>>

\* EmergencyContactViewSet.destroy on the contact c, one autocommit write.
ContactDestroy(c) ==
    /\ WriteLockFree
    /\ c \in contacts
    /\ contacts' = contacts \ {c}
    /\ UNCHANGED <<now, profile, rows, events, lock, faults, emails, turn_vars>>

\* ProfileMeAPIView.patch in two steps, as it runs beside other requests.
\* Lines 19-21: the Profile instance is loaded and the request data validated.
PatchLoad(data) ==
    /\ patch.pc = "idle"
    /\ patch' = [pc |-> "loaded", data |-> data, instance |-> profile]
    /\ UNCHANGED <<classify_vars, analyze_vars, pure_vars, db_vars, emails, turn_vars,
                   session, closing>>

\* Lines 24-28: serializer.save() sets the validated fields on the loaded
\* instance and calls instance.save(), an UPDATE of every column of the row
\* with the instance's values.  The write needs the write lock.
PatchSave ==
    /\ patch.pc = "loaded"
    /\ WriteLockFree
    /\ LET data == patch.data
           instance == patch.instance
           enabled == IF data.enabled = "absent" THEN instance.consent_alerts_enabled
                      ELSE data.enabled = "true"
           given == IF data.accepted = "absent" THEN instance.consent_text_accepted_at
                    ELSE NoTime
           accepted == IF /\ data.enabled = "true"
                          /\ instance.consent_text_accepted_at = NoTime
                          /\ data.accepted \in {"absent", "null"}
                       THEN now ELSE given
       IN  profile' = [consent_alerts_enabled |-> enabled,
                       consent_text_accepted_at |-> accepted,
                       last_alert_sent_at |-> instance.last_alert_sent_at]
    /\ patch' = [patch EXCEPT !.pc = "done"]
    /\ UNCHANGED <<classify_vars, analyze_vars, pure_vars, now, contacts, rows, events, lock,
                   faults, emails, turn_vars, session, closing>>

PatchData == [enabled : {"absent", "true", "false"}, accepted : {"absent", "null"}]

\* ChatSessionViewSet.send, lines 41-57: the session check, the request's
\* validation and the provider call, before any transaction.  An exception
\* leaving analyze_text ends the request.
SendStart(p) ==
    /\ pc[p] = "idle"
    /\ IF session.status # ACTIVE
       THEN /\ pc' = [pc EXCEPT ![p] = "rejected"]       \* 400 "Session is closed."
            /\ UNCHANGED llm
       ELSE /\ \E r \in ChatReplies :
                  llm' = [llm EXCEPT ![p] = analyze_text(ChatText, r[1], r[2])]
            /\ pc' = [pc EXCEPT ![p] = IF llm'[p].kind = "raised" THEN "raised" ELSE "begin"]
    /\ UNCHANGED <<db_vars, emails, attempt, tx, call, waits>>

\* ChatSessionViewSet.close in two steps, as it runs beside other requests.
\* Lines 117-119: the session is loaded; a closed session is returned as it is.
CloseCheck(c) ==
    /\ closing[c] = "idle"
    /\ closing' = [closing EXCEPT ![c] = IF session.status = CLOSED THEN "done" ELSE "checked"]
    /\ UNCHANGED <<classify_vars, analyze_vars, pure_vars, db_vars, emails, turn_vars,
                   patch, session>>

\* Lines 121-123: status and ended_at written, one autocommit write.
CloseSave(c) ==
    /\ closing[c] = "checked"
    /\ WriteLockFree
    /\ session' = [status |-> CLOSED, ended_at |-> now]
    /\ closing' = [closing EXCEPT ![c] = "done"]
    /\ UNCHANGED <<classify_vars, analyze_vars, pure_vars, db_vars, emails, turn_vars, patch>>

\* A slip a maintainer could make: the retry without the bound on the attempts.
Fail_NoBound(p, exc) ==
    /\ tx' = [tx EXCEPT ![p] = NoTx]
    /\ lock' = IF lock = p THEN NoTurn ELSE lock
    /\ IF exc = LOCKED
       THEN /\ waits' = [waits EXCEPT ![p] = Append(@, RETRY_DELAY_MS * (2 ^ attempt[p]))]
            /\ attempt' = [attempt EXCEPT ![p] = @ + 1]
            /\ pc' = [pc EXCEPT ![p] = "begin"]
       ELSE /\ pc' = [pc EXCEPT ![p] = "raised"]
            /\ UNCHANGED <<attempt, waits>>

\* Lines 95-102: the exception exc left the atomic block, which rolled the
\* transaction back; the except clause retries or re-raises.
Fail(p, exc) ==
    /\ tx' = [tx EXCEPT ![p] = NoTx]
    /\ lock' = IF lock = p THEN NoTurn ELSE lock
    /\ IF exc = LOCKED /\ attempt[p] < MAX_RETRIES - 1
       THEN /\ waits' = [waits EXCEPT ![p] = Append(@, RETRY_DELAY_MS * (2 ^ attempt[p]))]
            /\ attempt' = [attempt EXCEPT ![p] = @ + 1]
            /\ pc' = [pc EXCEPT ![p] = "begin"]
       ELSE /\ pc' = [pc EXCEPT ![p] = "raised"]
            /\ UNCHANGED <<attempt, waits>>

TurnRows(p) ==
    {[turn |-> p, attempt |-> attempt[p], kind |-> k] : k \in {"user_msg", "analysis", "ai_msg"}}

\* Lines 61-88: the transaction opens and inserts the user message, the
\* analysis and the AI message.  The first insert needs the write lock.
TxWrites(p) ==
    /\ pc[p] = "begin"
    /\ IF WriteLockFree
       THEN /\ lock' = p
            /\ tx' = [tx EXCEPT ![p] = [NoTx EXCEPT !.open = TRUE, !.rows = TurnRows(p)]]
            /\ pc' = [pc EXCEPT ![p] = "alert"]
            /\ UNCHANGED <<attempt, waits>>
       ELSE Fail(p, LOCKED)
    /\ UNCHANGED <<now, profile, contacts, rows, events, faults, emails, llm, call>>

\* Line 90: alert_event = maybe_send_alert(request.user, analysis)
MaybeSendAlert(p) ==
    /\ pc[p] = "alert"
    /\ \E env \in AlertEnvs :
         LET analysis == [id |-> <<p, attempt[p]>>,
                          risk_level |-> llm[p].payload.risk_level,
                          alert_recommended |-> llm[p].payload.alert_recommended]
             r == maybe_send_alert(profile, contacts, analysis, now, env)
         IN  /\ r.faulted = (env.fault_at # 0)
             /\ r.faulted => faults < MaxFaults
             /\ faults' = IF r.faulted THEN faults + 1 ELSE faults
             /\ emails' = emails \cup {r.mails[i] : i \in 1..Len(r.mails)}
             /\ call' = [call EXCEPT ![p] =
                           [state |-> IF r.raised = "" THEN "returned" ELSE "raised",
                            attempt |-> attempt[p],
                            recommended |-> analysis.alert_recommended,
                            risk_level |-> analysis.risk_level,
                            enabled |-> profile.consent_alerts_enabled,
                            accepted |-> profile.consent_text_accepted_at # NoTime,
                            last |-> profile.last_alert_sent_at,
                            dests |-> destinations(contacts),
                            at |-> now,
                            ret |-> r.ret,
                            raised |-> r.raised,
                            created |-> r.created,
                            sends |-> r.sends,
                            delivered |-> Len(r.mails)]]
             /\ IF r.raised = ""
                THEN /\ tx' = [tx EXCEPT ![p].events = r.created,
                                         ![p].set_last = r.set_last,
                                         ![p].last = r.last]
                     /\ pc' = [pc EXCEPT ![p] = "commit"]
                     /\ UNCHANGED <<lock, attempt, waits>>
                ELSE Fail(p, r.raised)
    /\ UNCHANGED <<now, profile, contacts, rows, events, llm>>

\* A slip a maintainer could make: the writes made without transaction.atomic(),
\* so that the rows written before a failure stay.
TxCommit_Autocommit(p) ==
    /\ pc[p] = "commit"
    /\ \/ /\ rows' = rows \cup tx[p].rows
          /\ events' = events \cup {tx[p].events[i] : i \in 1..Len(tx[p].events)}
          /\ profile' = IF tx[p].set_last
                        THEN [profile EXCEPT !.last_alert_sent_at = tx[p].last]
                        ELSE profile
          /\ tx' = [tx EXCEPT ![p] = NoTx]
          /\ lock' = IF lock = p THEN NoTurn ELSE lock
          /\ pc' = [pc EXCEPT ![p] = "done"]
          /\ UNCHANGED <<faults, attempt, waits>>
       \/ /\ faults < MaxFaults
          /\ faults' = faults + 1
          /\ \E exc \in OperationalErrors : Fail(p, exc)
          /\ rows' = rows \cup tx[p].rows
          /\ UNCHANGED <<events, profile>>
    /\ UNCHANGED <<now, contacts, emails, llm, call>>

\* Line 61, leaving the atomic block: the commit.  It makes the turn's writes
\* visible and releases the write lock, or fails and rolls back.
TxCommit(p) ==
    /\ pc[p] = "commit"
    /\ \/ /\ rows' = rows \cup tx[p].rows
          /\ events' = events \cup {tx[p].events[i] : i \in 1..Len(tx[p].events)}
          /\ profile' = IF tx[p].set_last
                        THEN [profile EXCEPT !.last_alert_sent_at = tx[p].last]
                        ELSE profile
          /\ tx' = [tx EXCEPT ![p] = NoTx]
          /\ lock' = IF lock = p THEN NoTurn ELSE lock
          /\ pc' = [pc EXCEPT ![p] = "done"]
          /\ UNCHANGED <<faults, attempt, waits>>
       \/ /\ faults < MaxFaults
          /\ faults' = faults + 1
          /\ \E exc \in OperationalErrors : Fail(p, exc)
          /\ UNCHANGED <<rows, events, profile>>
    /\ UNCHANGED <<now, contacts, emails, llm, call>>

\* The chat specifications leave the variables of the other two alone.
Parked == UNCHANGED <<classify_vars, analyze_vars, pure_vars, patch, session, closing>>

Ended(p) == pc[p] \in {"done", "raised", "rejected"}

\* No request is being handled
Quiet == \A p \in Turns : pc[p] = "idle" \/ Ended(p)

\* The user's requests one after another, in any order, while time passes: a
\* request starts when no other is being handled, and the chat turns are
\* numbered as they arrive.
Init == ClassifyIdle /\ AnalyzeIdle /\ PureIdle /\ ChatInit

Next ==
    \/ Tick /\ Parked
    \/ \E data \in PatchData : Quiet /\ ProfilePatch(data) /\ Parked
    \/ \E c \in {Amy, Bob} : Quiet /\ ContactDestroy(c) /\ Parked
    \/ \E p \in Turns : Quiet /\ (\A q \in Turns : q < p => Ended(q)) /\ SendStart(p) /\ Parked
    \/ \E p \in Turns : TxWrites(p) /\ Parked
    \/ \E p \in Turns : MaybeSendAlert(p) /\ Parked
    \/ \E p \in Turns : TxCommit(p) /\ Parked

Spec == Init /\ [][Next]_vars

\* Concurrent chat turns of a consenting user, each with a HIGH analysis; the
\* turns are numbered as they arrive.
SpecConcurrentInit == ClassifyIdle /\ AnalyzeIdle /\ PureIdle /\ ConcurrentInit

SpecConcurrentNext ==
    \/ Tick /\ Parked
    \/ \E p \in Turns :
          /\ \A q \in Turns : q < p => pc[q] # "idle"
          /\ SendStart(p)
          /\ llm'[p].payload.risk_level = HIGH
          /\ Parked
    \/ \E p \in Turns : TxWrites(p) /\ Parked
    \/ \E p \in Turns : MaybeSendAlert(p) /\ Parked
    \/ \E p \in Turns : TxCommit(p) /\ Parked

SpecConcurrent == SpecConcurrentInit /\ [][SpecConcurrentNext]_vars

\* Chat turns of a consenting user beside one profile update of the same user.
SpecProfileRaceInit == ClassifyIdle /\ AnalyzeIdle /\ PureIdle /\ ConcurrentInit

SpecProfileRaceNext ==
    \/ Tick /\ Parked
    \/ \E data \in PatchData : PatchLoad(data)
    \/ PatchSave
    \/ \E p \in Turns :
          /\ \A q \in Turns : q < p => pc[q] # "idle"
          /\ SendStart(p)
          /\ llm'[p].payload.risk_level = HIGH
          /\ Parked
    \/ \E p \in Turns : TxWrites(p) /\ Parked
    \/ \E p \in Turns : MaybeSendAlert(p) /\ Parked
    \/ \E p \in Turns : TxCommit(p) /\ Parked

SpecProfileRace == SpecProfileRaceInit /\ [][SpecProfileRaceNext]_vars

\* Chat turns of a consenting user beside requests closing the session.
SpecSessionCloseInit == ClassifyIdle /\ AnalyzeIdle /\ PureIdle /\ ConcurrentInit

SpecSessionCloseNext ==
    \/ Tick /\ Parked
    \/ \E c \in Closers : CloseCheck(c)
    \/ \E c \in Closers : CloseSave(c)
    \/ \E p \in Turns :
          /\ \A q \in Turns : q < p => pc[q] # "idle"
          /\ SendStart(p)
          /\ llm'[p].payload.risk_level = HIGH \/ pc'[p] = "rejected"
          /\ Parked
    \/ \E p \in Turns : TxWrites(p) /\ Parked
    \/ \E p \in Turns : MaybeSendAlert(p) /\ Parked
    \/ \E p \in Turns : TxCommit(p) /\ Parked

SpecSessionClose == SpecSessionCloseInit /\ [][SpecSessionCloseNext]_vars

SpecNormalizeInit == ClassifyIdle /\ AnalyzeIdle /\ NormalizeInit /\ ExtractIdle /\ ChatIdle
SpecNormalizeNext ==
    Normalize /\ UNCHANGED <<classify_vars, analyze_vars, x_text, x_out, chat_vars>>
SpecNormalize == SpecNormalizeInit /\ [][SpecNormalizeNext]_vars

SpecExtractInit == ClassifyIdle /\ AnalyzeIdle /\ NormalizeIdle /\ ExtractInit /\ ChatIdle
SpecExtractNext ==
    Extract /\ UNCHANGED <<classify_vars, analyze_vars, v_obj, v_out, chat_vars>>
SpecExtract == SpecExtractInit /\ [][SpecExtractNext]_vars

SpecClassifyInit == ClassifyInit /\ AnalyzeIdle /\ PureIdle /\ ChatIdle
SpecClassifyNext == Classify /\ UNCHANGED <<analyze_vars, pure_vars, chat_vars>>
SpecClassify == SpecClassifyInit /\ [][SpecClassifyNext]_vars

SpecAnalyzeInit == ClassifyIdle /\ AnalyzeInit /\ PureIdle /\ ChatIdle
SpecAnalyzeNext == AnalyzeText /\ UNCHANGED <<classify_vars, pure_vars, chat_vars>>
SpecAnalyze == SpecAnalyzeInit /\ [][SpecAnalyzeNext]_vars


(***************************************************************************)
(* Claims about the classifier (SpecClassify)                              *)
(***************************************************************************)

\* C1: for all integer scores in 0..10 the classifier returns the mean of the
\* three scores rounded to one decimal place, a value in 0.0..10.0, and the tier
\* of the first matching rule: CRITICAL if overall >= 9.0 or depression >= 9,
\* else HIGH if overall >= 7.0 or a sub-score >= 8, else MEDIUM if overall >= 4.0,
\* else LOW; (0,0,9) is CRITICAL, (8,0,0) is HIGH, (9,0,0) is HIGH.
C1_ClassifierContract ==
    cout.done =>
        LET s == cin.stress
            a == cin.anxiety
            d == cin.depression
            ov == cout.overall
        IN  /\ ov \in 0..100
            \* ov/10 is a nearest tenth of (s+a+d)/3: |ov/10 - (s+a+d)/3| <= 1/20
            /\ 6 * ov - 20 * (s + a + d) \in -3..3
            /\ \/ cout.risk = CRITICAL /\ (ov >= 90 \/ d >= 9)
               \/ /\ cout.risk = HIGH
                  /\ ~(ov >= 90 \/ d >= 9)
                  /\ (ov >= 70 \/ s >= 8 \/ a >= 8 \/ d >= 8)
               \/ /\ cout.risk = MEDIUM
                  /\ ~(ov >= 70 \/ s >= 8 \/ a >= 8 \/ d >= 8 \/ d >= 9)
                  /\ ov >= 40
               \/ /\ cout.risk = LOW
                  /\ ov < 40 /\ s < 8 /\ a < 8 /\ d < 8
            /\ (s = 0 /\ a = 0 /\ d = 9) => cout.risk = CRITICAL /\ ov = 30
            /\ (s = 8 /\ a = 0 /\ d = 0) => cout.risk = HIGH /\ ov = 27
            /\ (s = 9 /\ a = 0 /\ d = 0) => cout.risk = HIGH /\ ov = 30

C1_Witness ==
    /\ cout.done
    /\ cin = [stress |-> 9, anxiety |-> 0, depression |-> 0]
    /\ cout.risk = HIGH

(***************************************************************************)
(* Claims about analyze_text (SpecAnalyze)                                 *)
(***************************************************************************)

\* C8: analyze_text never raises: whatever the text and whatever the provider
\* does, the call returns an AnalysisPayload.
C8_AnalyzeTextNeverRaises == a_out.kind # "raised"

\* The reply object follows the schema of SYSTEM_PROMPT: the six keys, three int
\* scores in 0..10, two strings, an array of 3 to 6 strings.
IsScore(v) == v.t = "int" /\ v.n \in SCORE_LO..SCORE_HI
MatchesSchema(obj) ==
    /\ IsScore(obj.stress_score)
    /\ IsScore(obj.anxiety_score)
    /\ IsScore(obj.depression_score)
    /\ obj.rationale_short.t = "str"
    /\ obj.ai_message.t = "str"
    /\ obj.recommendations.t = "list"
    /\ Len(obj.recommendations.l) \in MIN_RECS..MAX_RECS
    /\ \A i \in 1..Len(obj.recommendations.l) : obj.recommendations.l[i].t = "str"

\* C9: when the reply parses to an object, the status is OK exactly when the
\* reply matched the schema with no correction and REPAIRED otherwise (a score
\* out of 0..10 or not an integer included), never FAILED, and the tier is the
\* classifier's for the normalized scores.
C9_StatusReflectsCorrections ==
    (a_out.kind = "payload" /\ a_out.parsed) =>
        LET p == a_out.payload
        IN  /\ p.analysis_status = (IF MatchesSchema(a_out.obj) THEN OK ELSE REPAIRED)
            /\ p.stress_score \in Scores
            /\ p.anxiety_score \in Scores
            /\ p.depression_score \in Scores
            /\ p.risk_level =
                  risk_from_scores(p.stress_score, p.anxiety_score, p.depression_score,
                     compute_overall(p.stress_score, p.anxiety_score, p.depression_score))

\* C10: every FAILED or REPAIRED outcome has a non-empty ai_message and at least
\* one recommendation, and ai_message is empty only when the status is FAILED.
C10_FailureStillDisplayable ==
    a_out.kind = "payload" =>
        LET p == a_out.payload
        IN  /\ p.analysis_status \in {FAILED, REPAIRED} =>
                  p.ai_message # <<>> /\ Len(p.recommendations) >= 1
            /\ p.ai_message = <<>> => p.analysis_status = FAILED

\* C11: in every outcome analyze_text returns, whatever its status, risk_level
\* is the classifier's tier for the outcome's own three scores and
\* alert_recommended is true exactly when that tier is HIGH or CRITICAL.
C11_TierAndAlertFollowScores ==
    a_out.kind = "payload" =>
        LET p == a_out.payload
            tier == risk_from_scores(p.stress_score, p.anxiety_score, p.depression_score,
                       compute_overall(p.stress_score, p.anxiety_score, p.depression_score))
        IN  /\ p.risk_level = tier
            /\ p.alert_recommended = (tier \in {HIGH, CRITICAL})

\* A REPAIRED outcome whose normalized scores classify as HIGH or CRITICAL,
\* with alert_recommended true.
C11_Witness ==
    /\ a_out.kind = "payload"
    /\ a_out.payload.analysis_status = REPAIRED
    /\ a_out.payload.risk_level \in {HIGH, CRITICAL}
    /\ a_out.payload.alert_recommended


\* C18: for an empty or whitespace-only text analyze_text returns a FAILED
\* outcome with the three scores 0, tier LOW, alert_recommended false and a
\* non-empty ai_message, and makes no provider call.
C18_EmptyTextShortCircuit ==
    (a_out.kind # "none" /\ \A i \in 1..Len(a_text) : a_text[i] = " ") =>
        /\ a_out.kind = "payload"
        /\ a_out.calls = 0
        /\ a_out.payload.analysis_status = FAILED
        /\ a_out.payload.stress_score = 0
        /\ a_out.payload.anxiety_score = 0
        /\ a_out.payload.depression_score = 0
        /\ a_out.payload.risk_level = LOW
        /\ ~a_out.payload.alert_recommended
        /\ a_out.payload.ai_message # <<>>

\* analyze_text has returned for a whitespace-only text.
C18_Witness ==
    /\ a_text = <<" ">>
    /\ a_out.kind = "payload"
    /\ a_out.calls = 0
    /\ a_out.payload.analysis_status = FAILED

\* C19: a call whose provider failed or whose reply could not be decoded (the
\* calls that made a provider call and did not reach the normalizer) returns
\* one of two FAILED outcomes, "invalid response format" or "provider error",
\* both with the scores 0, tier LOW, alert_recommended false and three
\* recommendations.
C19_TwoFailedOutcomes ==
    (/\ a_out.kind # "none"
     /\ a_out.calls = 1
     /\ ~a_out.parsed
     /\ a_out.exc \notin {"AttributeError", "TypeError"}) =>
        /\ a_out.kind = "payload"
        /\ a_out.payload.analysis_status = FAILED
        /\ a_out.payload.rationale_short \in
              {<<"Analysis failed due to invalid response format.">>,
               <<"Analysis failed due to provider error.">>}
        /\ a_out.payload.stress_score = 0
        /\ a_out.payload.anxiety_score = 0
        /\ a_out.payload.depression_score = 0
        /\ a_out.payload.risk_level = LOW
        /\ ~a_out.payload.alert_recommended
        /\ Len(a_out.payload.recommendations) = 3

\* C20: raw_llm_json is the provider's own reply: the whole reply when parsing
\* succeeded, with or without the repair step, and the first 1000 characters of
\* the offending reply when it failed; a FAILED outcome stores at most 1000.
C20_RawIsProviderReply ==
    (a_out.kind = "payload" /\ a_out.calls = 1) =>
        /\ a_out.parsed => a_out.payload.raw_llm_json = a_out.reply
        /\ a_out.payload.rationale_short = <<"Analysis failed due to invalid response format.">>
              => a_out.payload.raw_llm_json = SubSeq(a_out.reply, 1, Min(Len(a_out.reply), 1000))
        /\ a_out.payload.analysis_status = FAILED => Len(a_out.payload.raw_llm_json) <= 1000

(***************************************************************************)
(* Claims about maybe_send_alert and the chat turns.  call[p] is what the  *)
(* latest call of maybe_send_alert in turn p read and did.                 *)
(***************************************************************************)
Called(p) == call[p].state # "none"
CallReturned(p) == call[p].state = "returned"
Consent(p) == call[p].enabled /\ call[p].accepted
RecentSend(p) == call[p].last # NoTime /\ call[p].at - call[p].last < 24 * 3600
Skips == {SKIPPED_NO_CONSENT, SKIPPED_NO_CONTACTS, SKIPPED_RATE_LIMIT}

\* C2: for a call on a recommended analysis of a user with consent given and an
\* enabled email contact: when the tier is not CRITICAL and the recorded last
\* send is less than 24 hours before the check, no delivery is attempted and the
\* decision is SKIPPED_RATE_LIMIT; when the tier is CRITICAL, or there is no
\* recorded send, or it is 24 hours old or more, delivery is attempted.
C2_RateLimit ==
    \A p \in Turns :
        (Called(p) /\ call[p].recommended /\ Consent(p) /\ call[p].dests # <<>>) =>
            IF call[p].risk_level # CRITICAL /\ RecentSend(p)
            THEN /\ call[p].sends = 0
                 /\ CallReturned(p) => call[p].ret.status = SKIPPED_RATE_LIMIT
            ELSE /\ call[p].sends = 1
                 /\ CallReturned(p) => call[p].ret.status \in {SENT, FAILED}

\* A turn whose alert was sent with no send recorded before it, then a HIGH turn
\* within 24 hours that is rate limited.
C2_Witness ==
    \E p, q \in Turns :
        /\ CallReturned(p) /\ call[p].last = NoTime /\ call[p].ret.status = SENT
        /\ CallReturned(q) /\ call[q].risk_level = HIGH /\ Consent(q)
        /\ call[q].dests # <<>> /\ RecentSend(q)
        /\ call[q].ret.status = SKIPPED_RATE_LIMIT

\* C3: the conditions are evaluated in the order alert_recommended, consent,
\* contacts, rate limit, delivery, and the first that applies decides: no
\* recommendation gives no decision; no consent gives SKIPPED_NO_CONSENT whatever
\* the contacts and the last send; consent without an enabled email contact
\* gives SKIPPED_NO_CONTACTS whatever the last send; none of them delivers.
C3_FirstApplicableBranch ==
    \A p \in Turns : Called(p) =>
        /\ ~call[p].recommended =>
              CallReturned(p) /\ call[p].ret = NoAlertEvent /\ call[p].sends = 0
        /\ (call[p].recommended /\ ~Consent(p)) =>
              /\ call[p].sends = 0
              /\ CallReturned(p) => call[p].ret.status = SKIPPED_NO_CONSENT
        /\ (call[p].recommended /\ Consent(p) /\ call[p].dests = <<>>) =>
              /\ call[p].sends = 0
              /\ CallReturned(p) => call[p].ret.status = SKIPPED_NO_CONTACTS

\* A call for a user without consent, without an enabled email contact and with
\* a send in the last 24 hours, decided SKIPPED_NO_CONSENT.
C3_Witness ==
    \E p \in Turns :
        /\ CallReturned(p) /\ call[p].recommended /\ ~Consent(p)
        /\ call[p].dests = <<>> /\ RecentSend(p)
        /\ call[p].ret.status = SKIPPED_NO_CONSENT

\* C4: a call that produces no decision or a skip made no transport call, and
\* no call made one for a user whose alerts are disabled or whose
\* consent-accepted timestamp is absent when the call reads the profile; every
\* message the transport accepted went to the enabled email contacts.
C4_TransportOnlyOnDelivery ==
    /\ \A p \in Turns : Called(p) =>
          /\ (CallReturned(p) /\ call[p].ret.status \in Skips \cup {"None"}) =>
                call[p].sends = 0 /\ call[p].delivered = 0
          /\ ~Consent(p) => call[p].sends = 0 /\ call[p].delivered = 0
          /\ call[p].delivered <= call[p].sends
    /\ \A m \in emails : m.to # <<>>

\* A call for a user whose alerts are enabled but whose consent-accepted
\* timestamp is absent, skipped without a transport call.
C4_Witness ==
    \E p \in Turns :
        /\ CallReturned(p) /\ call[p].recommended
        /\ call[p].enabled /\ ~call[p].accepted
        /\ call[p].ret.status = SKIPPED_NO_CONSENT /\ call[p].sends = 0

\* C5: when the analysis recommends an alert, consent is given, there is an
\* enabled email contact, the call is not rate limited and the transport
\* succeeds, the call returns SENT with all enabled email destinations as
\* recipients and sent_at set, and last_alert_sent_at is written with that sent_at.
C5_SentOnTransportSuccess ==
    \A p \in Turns : (Called(p) /\ call[p].delivered = 1) =>
        /\ CallReturned(p)
        /\ call[p].ret.status = SENT
        /\ call[p].ret.sent_to = call[p].dests
        /\ call[p].ret.sent_at # NoTime
        /\ tx[p].set_last /\ tx[p].last = call[p].ret.sent_at

\* The AlertEvent rows of the call that stay in its transaction: an exception
\* leaving the call leaves the atomic block, which rolls its inserts back.
Persisted(p) == IF CallReturned(p) THEN Len(call[p].created) ELSE 0

\* C6: a call on a recommended analysis that returns, or that reached the
\* transport, persists exactly one AlertEvent for the analysis; a call on an
\* analysis that is not recommended returns none and persists no AlertEvent.
C6_ExactlyOneEvent ==
    \A p \in Turns : Called(p) =>
        IF call[p].recommended
        THEN (CallReturned(p) \/ call[p].sends = 1) =>
                /\ Persisted(p) = 1
                /\ call[p].created[1].analysis_result = <<p, call[p].attempt>>
        ELSE CallReturned(p) /\ call[p].ret = NoAlertEvent /\ call[p].created = <<>>


\* C7: of two concurrent chat turns of a consenting user with contacts, both
\* with a HIGH analysis, no two end with a SENT decision less than 24 hours
\* apart, no two SENT decisions less than 24 hours apart are committed, and the
\* transactions that check the rate limit and write last_alert_sent_at never overlap.
C7_AtMostOneSent ==
    /\ \A p, q \in Turns :
          (/\ p # q /\ pc[p] = "done" /\ pc[q] = "done"
           /\ call[p].ret.status = SENT /\ call[q].ret.status = SENT) =>
              \/ call[p].ret.sent_at - call[q].ret.sent_at >= 24 * 3600
              \/ call[q].ret.sent_at - call[p].ret.sent_at >= 24 * 3600
    /\ \A e, f \in events :
          (e # f /\ e.status = SENT /\ f.status = SENT) =>
              \/ e.sent_at - f.sent_at >= 24 * 3600
              \/ f.sent_at - e.sent_at >= 24 * 3600
    /\ \A p, q \in Turns : (tx[p].open /\ tx[q].open) => p = q

\* Two turns that overlapped (the later one found the database locked and
\* retried) and both ended: one SENT, the other SKIPPED_RATE_LIMIT.
C7_Witness ==
    \E p, q \in Turns :
        /\ pc[p] = "done" /\ pc[q] = "done"
        /\ call[p].risk_level = HIGH /\ call[q].risk_level = HIGH
        /\ call[p].ret.status = SENT
        /\ call[q].ret.status = SKIPPED_RATE_LIMIT
        /\ waits[q] # <<>>

C14_EventShape ==
    \A e \in events \cup UNION {{tx[p].events[i] : i \in 1..Len(tx[p].events)} : p \in Turns} :
        /\ e.status \in {SENT, FAILED} \cup Skips
        /\ (e.sent_at # NoTime) <=> (e.status = SENT)
        /\ (e.sent_to # <<>>) <=> (e.status = SENT)

\* A SENT event and an event of another status are both committed.
C14_Witness ==
    \E e, f \in events :
        /\ e.status = SENT /\ e.sent_at # NoTime /\ e.sent_to # <<>>
        /\ f.status # SENT /\ f.sent_at = NoTime /\ f.sent_to = <<>>

\* C15: the provider is called once per turn, before the turn's first
\* transaction; the retry loop makes at most 3 attempts, sleeps once between
\* consecutive attempts, and each sleep is longer than the one before.
C15_BoundedRetry ==
    \A p \in Turns :
        /\ llm[p].calls = (IF pc[p] = "idle" THEN 0 ELSE 1)
        /\ (tx[p].open \/ Called(p)) => llm[p].calls = 1
        /\ attempt[p] \in 0..2
        /\ Len(waits[p]) = attempt[p]
        /\ \A i \in 1..(Len(waits[p]) - 1) : waits[p][i] < waits[p][i + 1]

\* A turn that found the database locked twice and committed at its third attempt.
C15_Witness ==
    \E p \in Turns :
        /\ pc[p] = "done" /\ attempt[p] = 2 /\ Len(waits[p]) = 2
        /\ waits[p][1] < waits[p][2] /\ llm[p].calls = 1

\* C16: the records of a turn are committed together or not at all: a turn
\* that has not ended normally has no record persisted, and a turn that has
\* ended normally has exactly the user message, analysis and AI message of its
\* last attempt and the decision of that attempt.
C16_AllOrNothing ==
    \A p \in Turns :
        LET mine == {r \in rows : r.turn = p}
            decisions == {e \in events : e.analysis_result[1] = p}
        IN  IF pc[p] = "done"
            THEN /\ mine = {[turn |-> p, attempt |-> attempt[p], kind |-> k] :
                              k \in {"user_msg", "analysis", "ai_msg"}}
                 /\ decisions = (IF call[p].ret = NoAlertEvent THEN {} ELSE {call[p].ret})
                 /\ \A e \in decisions : e.analysis_result = <<p, attempt[p]>>
            ELSE mine = {} /\ decisions = {}

\* A turn whose three attempts all found the database locked has raised and
\* left no record, beside a turn that ended normally.
C16_Witness ==
    \E p, q \in Turns :
        /\ pc[p] = "raised" /\ attempt[p] = 2 /\ Len(waits[p]) = 2
        /\ {r \in rows : r.turn = p} = {}
        /\ pc[q] = "done" /\ {r \in rows : r.turn = q} # {}

\* C17: no transport call is made while the turn's transaction is open: a
\* transaction waiting to commit has made none.  (The provider call precedes
\* the transaction.)
C17_NoTransportInsideTransaction ==
    \A p \in Turns :
        /\ (pc[p] = "commit" /\ tx[p].open) => call[p].sends = 0
        /\ tx[p].open => llm[p].calls = 1

\* C13: last_alert_sent_at changes only when a turn commits a SENT decision,
\* and then to that decision's sent_at: no other result of maybe_send_alert
\* and no profile update changes it.
C13_LastAlertOnlyBySend ==
    [][profile'.last_alert_sent_at # profile.last_alert_sent_at =>
          \E p \in Turns :
              /\ pc[p] = "commit" /\ pc'[p] = "done"
              /\ call[p].ret.status = SENT
              /\ profile'.last_alert_sent_at = call[p].ret.sent_at]_vars


\* C23: an OK outcome has between 3 and 6 recommendations; an outcome with
\* fewer than 3 is REPAIRED or FAILED; a reply object whose recommendations
\* field is present and is not a list, or is a list of fewer than 3 entries,
\* gives a REPAIRED outcome (an error was recorded) whose recommendations are
\* that short list as it is, or no recommendation for a value that is not a list.
C23_RecommendationCount ==
    a_out.kind = "payload" =>
        LET p == a_out.payload
            given == a_out.obj.recommendations
        IN  /\ p.analysis_status = OK => Len(p.recommendations) \in 3..6
            /\ Len(p.recommendations) < 3 => p.analysis_status \in {REPAIRED, FAILED}
            /\ Len(p.recommendations) <= 6
            /\ (a_out.parsed /\ given # PyAbsent /\ (given.t # "list" \/ Len(given.l) < 3)) =>
                  /\ p.analysis_status = REPAIRED
                  /\ Len(p.recommendations) = (IF given.t = "list" THEN Len(given.l) ELSE 0)
                  /\ \A i \in 1..Len(p.recommendations) : p.recommendations[i] = py_str(given.l[i])

\* A reply with two recommendations has given a REPAIRED outcome holding the two.
C23_Witness ==
    /\ a_out.kind = "payload" /\ a_out.parsed
    /\ a_out.payload.analysis_status = REPAIRED
    /\ a_out.obj.recommendations = PyList(<<Rec, Rec>>)
    /\ Len(a_out.payload.recommendations) = 2
    /\ a_out.obj.ai_message.t = "str" /\ a_out.obj.rationale_short.t = "str"
    /\ a_out.obj.stress_score # PyAbsent /\ a_out.obj.anxiety_score # PyAbsent

\* The messages the transport accepted for turn p
Delivered(p) == {m \in emails : m.analysis_result[1] = p}

\* C25: one chat turn has at most one alert email accepted by the transport,
\* however many attempts its retry loop makes.
C25_OneEmailPerTurn ==
    \A p \in Turns : Cardinality(Delivered(p)) <= 1

\* C26: once a turn has ended, normally or by raising, an alert email was
\* delivered for it exactly when a SENT AlertEvent of the turn is persisted
\* and the profile's last_alert_sent_at is not older than its sent_at.
C26_DeliveredIffRecorded ==
    \A p \in Turns : pc[p] \in {"done", "raised"} =>
        (Delivered(p) # {} <=>
            \E e \in events :
                /\ e.analysis_result[1] = p
                /\ e.status = SENT
                /\ profile.last_alert_sent_at >= e.sent_at)

\* C28: a profile with alerts enabled has its consent acceptance timestamp set.
C28_EnabledImpliesAccepted ==
    profile.consent_alerts_enabled => profile.consent_text_accepted_at # NoTime

\* C27: nothing is committed into a session that is CLOSED at the commit; a
\* send on a session that is not ACTIVE is rejected with no provider call and
\* no write; and a closed session stays as it is, its ended_at set once.
C27_NoWriteIntoClosedSession ==
    [][/\ \A p \in Turns :
            /\ (pc[p] = "commit" /\ pc'[p] = "done") => session.status = ACTIVE
            /\ (pc[p] = "idle" /\ pc'[p] # "idle" /\ session.status # ACTIVE) =>
                  /\ pc'[p] = "rejected"
                  /\ llm'[p].calls = 0
                  /\ rows' = rows /\ events' = events /\ tx'[p] = NoTx
       /\ session.status = CLOSED => session' = session]_vars

(***************************************************************************)
(* The normalizer (SpecNormalize)                                          *)
(***************************************************************************)
ScoreKeys == {"stress_score", "anxiety_score", "depression_score"}

\* The score the normalizer is to return for the value v of a score field
ExpectedScore(v) ==
    IF v = PyAbsent \/ ~py_int(v).ok THEN 0
    ELSE IF py_int(v).n < 0 THEN 0
    ELSE IF py_int(v).n > 10 THEN 10
    ELSE py_int(v).n

\* C21: on every parsed object the normalizer returns a record whose three
\* scores are integers within 0..10: 0 for a missing value and for one that
\* int() rejects, 0 for a value below 0, 10 for a value above 10, the
\* coerced value otherwise; and at most 6 recommendations.
C21_ScoresBounded ==
    Len(v_out) >= 1 =>
        /\ \A k \in ScoreKeys :
              /\ v_out[1].normalized[k] \in 0..10
              /\ v_out[1].normalized[k] = ExpectedScore(v_obj[k])
        /\ Len(v_out[1].normalized.recommendations) <= 6

\* An object whose scores are a value int() rejects, a value above 10 and a
\* value below 0 has been normalized to 0, 10 and 0, with a list of seven
\* recommendations cut to six.
C21_Witness ==
    /\ Len(v_out) >= 1
    /\ v_obj.stress_score = PyStr(<<"a">>) /\ v_out[1].normalized.stress_score = 0
    /\ v_obj.anxiety_score = PyInt(12) /\ v_out[1].normalized.anxiety_score = 10
    /\ v_obj.depression_score = PyInt(-4) /\ v_out[1].normalized.depression_score = 0
    /\ Len(v_obj.recommendations.l) = 7
    /\ Len(v_out[1].normalized.recommendations) = 6

ErrorSet(errors) == {errors[i] : i \in 1..Len(errors)}

\* C22: the normalizer applied to the record of a first application returns
\* the identical record and reports no error that the first application
\* did not report.
C22_Idempotent ==
    Len(v_out) = 2 =>
        /\ v_out[2].normalized = v_out[1].normalized
        /\ ErrorSet(v_out[2].errors) \subseteq ErrorSet(v_out[1].errors)


(***************************************************************************)
(* The extractor (SpecExtract)                                             *)
(***************************************************************************)
Parses(text) == json_loads(text, StubObject).ok

\* The substring from the first "{" to the last "}" of the stripped text,
\* <<>> when there is none
Braced(text0) ==
    LET text == strip_fences(text0)
    IN  IF Find(text, "{") # 0 /\ RFind(text, "}") > Find(text, "{")
        THEN SubSeq(text, Find(text, "{"), RFind(text, "}"))
        ELSE <<>>

\* C24: the extractor never raises; what it returns either parses as JSON or
\* is the original text with the fence markers stripped and trimmed; when the
\* substring from the first "{" to the last "}" parses, that substring is
\* returned.
C24_ExtractorTotal ==
    x_out.kind # "none" =>
        /\ x_out.kind = "returned"
        /\ Parses(x_out.text) \/ x_out.text = strip_fences(x_text)
        /\ (Braced(x_text) # <<>> /\ Parses(Braced(x_text))) => x_out.text = Braced(x_text)

=============================================================================
